---- MODULE Spec2Model ----
(***************************************************************************)
(* A model of sqlx-core-next: SslMode parsing, the Connection / Executor   *)
(* contract, the Execute adapters, the Arguments container and the         *)
(* Type / ToValue defaults.                                                *)
(*                                                                         *)
(* A Rust string is a sequence of characters; a character is a one-letter  *)
(* TLA+ string, and a character outside ASCII is named by its code point   *)
(* ("U+017F").                                                             *)
(***************************************************************************)
EXTENDS Integers, Sequences, FiniteSets, TLC

VARIABLES
    s,            \* SslMode::from_str: the input string
    changes,      \* how many edits were applied to the input
    ssl_result,   \* what from_str returned, NoResult before the call
    grammar,      \* the backend's FromStr for its options: the URIs it accepts
    call,         \* the connect / connect_sync call in progress
    connections,  \* every connection the backend has opened, by number
    owned,        \* the connections the caller holds (not yet moved away)
    last_op,      \* the last execute, ping or close and what it returned
    outcomes,     \* what each entry point last returned, by URI and by the
                  \* answer of the backend's connect
    args,         \* the Arguments being built
    args_log,     \* how args was built and what was appended to it
    cmd,          \* the Execute value made from a text and, for a pair, args
    obs,          \* what sql(), arguments() and persistent() returned on cmd
    prev_obs,     \* what they returned on the value cmd is a reference to
    db,           \* the Database the value type and the TypeInfo belong to
    ty,           \* the TypeInfo the driver reports for a parameter
    vt,           \* the Rust value type: an implementation of Type<DB>
    type_obs      \* what type_id(), compatible(ty) and accepts(ty) returned

sslVars == <<s, changes, ssl_result>>

connVars == <<grammar, call, connections, owned, last_op, outcomes>>

cmdVars == <<args, args_log, cmd, obs, prev_obs>>

typeVars == <<db, ty, vt, type_obs>>

vars ==
    <<s, changes, ssl_result, grammar, call, connections, owned, last_op,
      outcomes, args, args_log, cmd, obs, prev_obs, db, ty, vt, type_obs>>

\* what the steps of one part leave alone: the variables of the other parts
notSsl == <<connVars, cmdVars, typeVars>>

notConn == <<sslVars, cmdVars, typeVars>>

notCmd == <<sslVars, connVars, typeVars>>

notType == <<sslVars, connVars, cmdVars>>

(***************************************************************************)
(* Bounds.                                                                 *)
(***************************************************************************)
\* case changes and edits applied to a starting string before it is parsed
MaxChanges == 2

\* connections the backend opens in one run
MaxConns == 2

\* entries appended to one Arguments
MaxAppends == 3

\* the largest capacity asked of with_capacity
MaxCapacity == 2

\* how many times a command is wrapped in a reference
MaxRefDepth == 2

\* SQL type identifiers of one database
NumTypeIds == 2

\* how many times a value type is wrapped in a reference or an Option
MaxWrapDepth == 2

(***************************************************************************)
(* options/ssl_mode.rs                                                     *)
(***************************************************************************)
UpperLetters ==
    <<"A","B","C","D","E","F","G","H","I","J","K","L","M",
      "N","O","P","Q","R","S","T","U","V","W","X","Y","Z">>

LowerLetters ==
    <<"a","b","c","d","e","f","g","h","i","j","k","l","m",
      "n","o","p","q","r","s","t","u","v","w","x","y","z">>

\* u8::to_ascii_lowercase on one character: only A..Z change
CharToAsciiLowercase(c) ==
    IF \E i \in 1..26 : UpperLetters[i] = c
    THEN LowerLetters[CHOOSE i \in 1..26 : UpperLetters[i] = c]
    ELSE c

\* the inverse, used to build mixed-case inputs
CharToAsciiUppercase(c) ==
    IF \E i \in 1..26 : LowerLetters[i] = c
    THEN UpperLetters[CHOOSE i \in 1..26 : LowerLetters[i] = c]
    ELSE c

\* a mutant: the input is matched as written
StrAsWritten(str) == str

\* str::to_ascii_lowercase
to_ascii_lowercase(str) == [i \in 1..Len(str) |-> CharToAsciiLowercase(str[i])]

A_disable         == <<"d","i","s","a","b","l","e">>
A_allow           == <<"a","l","l","o","w">>
A_prefer          == <<"p","r","e","f","e","r">>
A_require         == <<"r","e","q","u","i","r","e">>
A_verify_ca_dash  == <<"v","e","r","i","f","y","-","c","a">>
A_verify_ca_under == <<"v","e","r","i","f","y","_","c","a">>
A_verify_full_dash      == <<"v","e","r","i","f","y","-","f","u","l","l">>
A_verify_identity_dash  == <<"v","e","r","i","f","y","-","i","d","e","n","t","i","t","y">>
A_verify_full_under     == <<"v","e","r","i","f","y","_","f","u","l","l">>
A_verify_identity_under == <<"v","e","r","i","f","y","_","i","d","e","n","t","i","t","y">>

SslModes == {"Disable", "Prefer", "Require", "VerifyCa", "VerifyIdentity"}

NoResult == [tag |-> "none", value |-> "", kind |-> "", message |-> <<>>]

Ok(v) == [tag |-> "Ok", value |-> v, kind |-> "", message |-> <<>>]

Err(k, m) == [tag |-> "Err", value |-> "", kind |-> k, message |-> m]

\* <str as Debug>::fmt on one character: the quote, the backslash and the
\* control characters are backslash-escaped, every other character is kept
DebugChar(c) ==
    CASE c = "\"" -> <<"\\", "\"">>
      [] c = "\\" -> <<"\\", "\\">>
      [] c = "\n" -> <<"\\", "n">>
      [] c = "\t" -> <<"\\", "t">>
      [] OTHER    -> <<c>>

RECURSIVE DebugBody(_)
DebugBody(str) ==
    IF str = <<>> THEN <<>> ELSE DebugChar(Head(str)) \o DebugBody(Tail(str))

\* format!("{:?}", s): the escaped characters between two quotes
DebugStr(str) == <<"\"">> \o DebugBody(str) \o <<"\"">>

MsgPrefix == <<"u","n","k","n","o","w","n"," ","v","a","l","u","e"," ">>

\* " for `ssl_mode`"; the backtick is written by its code point
MsgSuffix ==
    <<" ","f","o","r"," ","U+0060","s","s","l","_","m","o","d","e","U+0060">>

\* a mutant: the error message is built from the lower-cased string
UnknownValueOfLowercased(str) ==
    MsgPrefix \o DebugStr(to_ascii_lowercase(str)) \o MsgSuffix

\* format!("unknown value {:?} for `ssl_mode`", s)
UnknownValue(str) == MsgPrefix \o DebugStr(str) \o MsgSuffix

\* the match of from_str on the lower-cased string
MatchSslMode(low, str) ==
    CASE low \in {A_disable, A_allow} -> Ok("Disable")
      [] low = A_prefer -> Ok("Prefer")
      [] low = A_require -> Ok("Require")
      [] low \in {A_verify_ca_dash, A_verify_ca_under} -> Ok("VerifyCa")
      [] low \in {A_verify_full_dash, A_verify_identity_dash,
                  A_verify_full_under, A_verify_identity_under}
            -> Ok("VerifyIdentity")
      [] OTHER -> Err("Configuration", UnknownValue(str))

\* <SslMode as FromStr>::from_str
from_str(str) == MatchSslMode(to_ascii_lowercase(str), str)

\* the strings an input starts from: the alias table of from_str, the empty
\* string and a word that is no alias
StartStrings ==
    {A_disable, A_allow, A_prefer, A_require, A_verify_ca_dash,
     A_verify_ca_under, A_verify_full_dash, A_verify_identity_dash,
     A_verify_full_under, A_verify_identity_under, <<>>, <<"o","n">>}

\* characters an edit may put into the input: the quote and the backslash,
\* which Debug escapes, an upper-case letter and the long s, which is outside
\* ASCII and upper-cases to S under Unicode rules
EditChars == {"\"", "\\", "E", "U+017F"}

SslStart ==
    /\ s \in StartStrings
    /\ changes = 0
    /\ ssl_result = NoResult

\* the caller writes one letter of the input in upper case
ToUpper(i) ==
    /\ ssl_result = NoResult
    /\ changes < MaxChanges
    /\ i \in 1..Len(s)
    /\ CharToAsciiUppercase(s[i]) # s[i]
    /\ s' = [s EXCEPT ![i] = CharToAsciiUppercase(s[i])]
    /\ changes' = changes + 1
    /\ UNCHANGED ssl_result
    /\ UNCHANGED notSsl

\* the caller puts one more character into the input, after position i
InsertChar(i, c) ==
    /\ ssl_result = NoResult
    /\ changes < MaxChanges
    /\ i \in 0..Len(s)
    /\ s' = SubSeq(s, 1, i) \o <<c>> \o SubSeq(s, i + 1, Len(s))
    /\ changes' = changes + 1
    /\ UNCHANGED ssl_result
    /\ UNCHANGED notSsl

\* the caller leaves one character of the input out
DeleteChar(i) ==
    /\ ssl_result = NoResult
    /\ changes < MaxChanges
    /\ i \in 1..Len(s)
    /\ s' = SubSeq(s, 1, i - 1) \o SubSeq(s, i + 1, Len(s))
    /\ changes' = changes + 1
    /\ UNCHANGED ssl_result
    /\ UNCHANGED notSsl

\* s.parse::<SslMode>()
Parse ==
    /\ ssl_result = NoResult
    /\ ssl_result' = from_str(s)
    /\ UNCHANGED <<s, changes>>
    /\ UNCHANGED notSsl

SslStep ==
    \/ \E i \in 1..Len(s) : ToUpper(i)
    \/ \E i \in 0..Len(s), c \in EditChars : InsertChar(i, c)
    \/ \E i \in 1..Len(s) : DeleteChar(i)
    \/ Parse

(***************************************************************************)
(* connection.rs, options.rs, executor.rs                                  *)
(*                                                                         *)
(* The backend's parts are trait methods without a body: parsing options   *)
(* from a URI, the options-level connect, execute, ping and close.  Each   *)
(* is a choice among the values its signature allows.                      *)
(***************************************************************************)
Uris == {"uri_a", "uri_b"}

NoConnResult == [tag |-> "none", conn |-> 0, error |-> ""]

ConnOk(c) == [tag |-> "Ok", conn |-> c, error |-> ""]

ConnErr(e) == [tag |-> "Err", conn |-> 0, error |-> e]

\* uri.parse::<Self::Options>(): FromStr<Err = crate::Error> of the backend
ParseOptions(uri) ==
    IF grammar[uri]
    THEN [tag |-> "Ok", options |-> uri, error |-> ""]
    ELSE [tag |-> "Err", options |-> "", error |-> "Configuration"]

\* ConnectOptions::connect / connect_sync of the backend on the connections
\* conns: a new connection, or a failure that leaves none behind
OptionsConnect(options, reach, conns) ==
    IF reach
    THEN [result  |-> ConnOk(Len(conns) + 1),
          conns   |-> Append(conns, [state |-> "Connected", options |-> options]),
          invoked |-> 1]
    ELSE [result |-> ConnErr("Connect"), conns |-> conns, invoked |-> 1]

\* a mutant: the options-level connect is invoked a second time and the
\* connection of the first invocation is left behind
connect_sync_twice(uri, reach, conns) ==
    LET opt == ParseOptions(uri)
        first == OptionsConnect(opt.options, reach, conns)
        second == OptionsConnect(opt.options, reach, first.conns)
    IN  IF opt.tag = "Err"
        THEN [result |-> ConnErr(opt.error), conns |-> conns, invoked |-> 0]
        ELSE [result |-> second.result, conns |-> second.conns, invoked |-> 2]

\* a mutant: a URI that does not parse is replaced by the default options
connect_sync_or_default(uri, reach, conns) ==
    LET opt == ParseOptions(uri)
    IN  OptionsConnect(IF opt.tag = "Err" THEN "default" ELSE opt.options,
                       reach, conns)

\* Connection::connect_sync: uri.parse().and_then(|opt| opt.connect_sync())
connect_sync(uri, reach, conns) ==
    LET opt == ParseOptions(uri)
    IN  IF opt.tag = "Err"
        THEN [result |-> ConnErr(opt.error), conns |-> conns, invoked |-> 0]
        ELSE OptionsConnect(opt.options, reach, conns)

IdleCall ==
    [entry |-> "none", stage |-> "idle", uri |-> "", opt |-> NoConnResult,
     result |-> NoConnResult, created |-> {}, invoked |-> 0]

NoOp == [op |-> "none", conn |-> 0, ok |-> TRUE]

\* the numbers of the connections in after that are not in before
NewConns(before, after) == (1..Len(after)) \ (1..Len(before))

\* the two entry points of Connection
Entries == {"connect", "connect_sync"}

NoOutcomes == [k \in Entries \X Uris \X BOOLEAN |-> "none"]

\* a result as the log keeps it: Ok, or the kind of the error
OutcomeOf(result) == IF result.tag = "Ok" THEN "Ok" ELSE result.error

ConnStart ==
    /\ grammar \in [Uris -> BOOLEAN]
    /\ call = IdleCall
    /\ connections = <<>>
    /\ owned = {}
    /\ last_op = NoOp
    /\ outcomes = NoOutcomes

\* Connection::connect_sync(uri), from the call to its return
ConnectSync(uri, reach) ==
    /\ call.stage = "idle"
    /\ reach => Len(connections) < MaxConns
    /\ LET r == connect_sync(uri, reach, connections)
       IN  /\ call' = [entry |-> "connect_sync", stage |-> "returned",
                       uri |-> uri, opt |-> NoConnResult, result |-> r.result,
                       created |-> NewConns(connections, r.conns),
                       invoked |-> r.invoked]
           /\ connections' = r.conns
           /\ outcomes' = [outcomes EXCEPT ![<<"connect_sync", uri, reach>>] =
                                              OutcomeOf(r.result)]
    /\ UNCHANGED <<grammar, owned, last_op>>
    /\ UNCHANGED notConn

\* Connection::connect(uri): the URI is parsed at once and the future that
\* holds the parse result is handed back; nothing else has run yet
Connect(uri) ==
    /\ call.stage = "idle"
    /\ LET opt == ParseOptions(uri)
       IN  call' = [entry |-> "connect", stage |-> "future", uri |-> uri,
                    opt |-> [tag |-> opt.tag, conn |-> 0,
                             error |-> IF opt.tag = "Ok" THEN opt.options
                                       ELSE opt.error],
                    result |-> NoConnResult, created |-> {}, invoked |-> 0]
    /\ UNCHANGED <<grammar, connections, owned, last_op, outcomes>>
    /\ UNCHANGED notConn

\* the first poll of the future: opt? returns the parse error, whatever the
\* backend's connect would have answered, or opt.connect() is invoked and
\* awaited
PollFirst ==
    /\ call.stage = "future"
    /\ IF call.opt.tag = "Err"
       THEN /\ call' = [call EXCEPT !.stage = "returned",
                                    !.result = ConnErr(call.opt.error)]
            /\ outcomes' = [k \in DOMAIN outcomes |->
                               IF k[1] = "connect" /\ k[2] = call.uri
                               THEN OutcomeOf(ConnErr(call.opt.error))
                               ELSE outcomes[k]]
       ELSE /\ call' = [call EXCEPT !.stage = "awaiting", !.invoked = 1]
            /\ UNCHANGED outcomes
    /\ UNCHANGED <<grammar, connections, owned, last_op>>
    /\ UNCHANGED notConn

\* a later poll: the awaited options-level connect is ready and the future
\* returns its result
PollReady(reach) ==
    /\ call.stage = "awaiting"
    /\ reach => Len(connections) < MaxConns
    /\ LET r == OptionsConnect(call.opt.error, reach, connections)
       IN  /\ call' = [call EXCEPT !.stage = "returned", !.result = r.result,
                                   !.created = NewConns(connections, r.conns)]
           /\ connections' = r.conns
           /\ outcomes' = [outcomes EXCEPT ![<<"connect", call.uri, reach>>] =
                                              OutcomeOf(r.result)]
    /\ UNCHANGED <<grammar, owned, last_op>>
    /\ UNCHANGED notConn

\* the caller drops the future before it is ready
DropFuture ==
    /\ call.stage \in {"future", "awaiting"}
    /\ call' = IdleCall
    /\ UNCHANGED <<grammar, connections, owned, last_op, outcomes>>
    /\ UNCHANGED notConn

\* the caller takes what the call returned: the connection, if any, is its own
TakeResult ==
    /\ call.stage = "returned"
    /\ owned' = IF call.result.tag = "Ok" THEN owned \cup {call.result.conn}
                ELSE owned
    /\ call' = IdleCall
    /\ UNCHANGED <<grammar, connections, last_op, outcomes>>
    /\ UNCHANGED notConn

\* Executor::execute / execute_sync through &mut of a connection the caller
\* holds; what it returns is the backend's
Execute(c, ok) ==
    /\ c \in owned
    /\ last_op' = [op |-> "execute", conn |-> c, ok |-> ok]
    /\ UNCHANGED <<grammar, call, connections, owned, outcomes>>
    /\ UNCHANGED notConn

\* Connection::ping / ping_sync(&mut self)
Ping(c, ok) ==
    /\ c \in owned
    /\ last_op' = [op |-> "ping", conn |-> c, ok |-> ok]
    /\ UNCHANGED <<grammar, call, connections, owned, outcomes>>
    /\ UNCHANGED notConn

\* Connection::close / close_sync(self): the connection is moved into the
\* call, whatever the call returns
Close(c, ok) ==
    /\ c \in owned
    /\ owned' = owned \ {c}
    /\ connections' = [connections EXCEPT ![c].state = "Closed"]
    /\ last_op' = [op |-> "close", conn |-> c, ok |-> ok]
    /\ UNCHANGED <<grammar, call, outcomes>>
    /\ UNCHANGED notConn

ConnStep ==
    \/ \E uri \in Uris, reach \in BOOLEAN : ConnectSync(uri, reach)
    \/ \E uri \in Uris : Connect(uri)
    \/ PollFirst
    \/ \E reach \in BOOLEAN : PollReady(reach)
    \/ DropFuture
    \/ TakeResult
    \/ \E c \in owned, ok \in BOOLEAN : Execute(c, ok)
    \/ \E c \in owned, ok \in BOOLEAN : Ping(c, ok)
    \/ \E c \in owned, ok \in BOOLEAN : Close(c, ok)

(***************************************************************************)
(* arguments.rs                                                            *)
(***************************************************************************)
\* struct Argument { value: &'a () }
Argument == [value |-> "()"]

\* the names a named argument may be keyed by
Names == {"a", "b"}

\* Arguments::default(): Vec::default() and HashMap::default()
DefaultArguments == [positional |-> <<>>, named |-> <<>>, capacity |-> 0]

\* Arguments::new()
new == DefaultArguments

\* Arguments::with_capacity(capacity)
with_capacity(capacity) ==
    [positional |-> <<>>, named |-> <<>>, capacity |-> capacity]

\* a mutant: the named arguments are not counted
len_positional(a) == Len(a.positional)

\* Arguments::len
len(a) == Len(a.positional) + Cardinality(DOMAIN a.named)

\* Arguments::is_empty
is_empty(a) == Len(a.positional) = 0 /\ DOMAIN a.named = {}

\* Vec::push on the positional field
PushedPositional(a, x) == [a EXCEPT !.positional = Append(a.positional, x)]

\* HashMap::insert on the named field: one entry per key, the last one kept
InsertedNamed(a, name, x) ==
    [a EXCEPT !.named = [n \in (DOMAIN a.named) \cup {name} |->
                            IF n = name THEN x ELSE a.named[n]]]

NoLog ==
    [ctor |-> "none", pushed |-> 0, inserted |-> 0, names |-> {},
     len |-> 0, is_empty |-> TRUE]

\* the log with what len() and is_empty() return on a
Measured(log, a) == [log EXCEPT !.len = len(a), !.is_empty = is_empty(a)]

New ==
    /\ args_log.ctor = "none"
    /\ args' = new
    /\ args_log' = Measured([NoLog EXCEPT !.ctor = "new"], args')
    /\ UNCHANGED <<cmd, obs, prev_obs>>
    /\ UNCHANGED notCmd

WithCapacity(k) ==
    /\ args_log.ctor = "none"
    /\ args' = with_capacity(k)
    /\ args_log' = Measured([NoLog EXCEPT !.ctor = "with_capacity"], args')
    /\ UNCHANGED <<cmd, obs, prev_obs>>
    /\ UNCHANGED notCmd

\* a positional entry is appended to the Arguments under construction, and
\* len() and is_empty() are read
PushPositional ==
    /\ args_log.ctor # "none"
    /\ cmd.kind = "none"
    /\ args_log.pushed + args_log.inserted < MaxAppends
    /\ args' = PushedPositional(args, Argument)
    /\ args_log' = Measured([args_log EXCEPT !.pushed = @ + 1], args')
    /\ UNCHANGED <<cmd, obs, prev_obs>>
    /\ UNCHANGED notCmd

\* a named entry is appended to the Arguments under construction, and len()
\* and is_empty() are read
InsertNamed(name) ==
    /\ args_log.ctor # "none"
    /\ cmd.kind = "none"
    /\ args_log.pushed + args_log.inserted < MaxAppends
    /\ args' = InsertedNamed(args, name, Argument)
    /\ args_log' = Measured([args_log EXCEPT !.inserted = @ + 1,
                                             !.names = @ \cup {name}], args')
    /\ UNCHANGED <<cmd, obs, prev_obs>>
    /\ UNCHANGED notCmd

(***************************************************************************)
(* execute.rs                                                              *)
(*                                                                         *)
(* An Option is a set with no element (None) or one (Some).                *)
(***************************************************************************)
None == {}

Some(x) == {x}

Texts == {"SELECT 1", ""}

\* the adapters without arguments: &str and String
TextKinds == {"&str", "String"}

\* the adapters with arguments: (&str, Arguments) and (String, Arguments)
PairKinds == {"(&str, Arguments)", "(String, Arguments)"}

NoCommand == [kind |-> "none"]

\* a text as an Execute value
TextCommand(kind, text) == [kind |-> kind, text |-> text]

\* a (text, Arguments) pair as an Execute value
PairCommand(kind, text, a) == [kind |-> kind, text |-> text, args |-> a]

\* an Execute implementation of the caller's own, free to override
\* arguments() and persistent()
OwnCommand(text, a, p) ==
    [kind |-> "own", text |-> text, arguments |-> a, persistent |-> p]

\* &E
Ref(e) == [kind |-> "&E", inner |-> e]

\* Execute::sql of each implementation
RECURSIVE sql(_)
sql(e) ==
    IF e.kind = "&E" THEN sql(e.inner) ELSE e.text

\* a mutant: a pair with no argument appended gives None
arguments_none_when_empty(a) == IF is_empty(a) THEN None ELSE Some(a)

\* Some(&self.1) of the two pair implementations
arguments_of_pair(a) == Some(a)

\* (*self).arguments() of the implementation for &E
arguments_of_ref(inner_result) == inner_result

\* Execute::arguments: None by default, overridden by the pairs and forwarded
\* by &E
RECURSIVE arguments(_)
arguments(e) ==
    CASE e.kind \in PairKinds -> arguments_of_pair(e.args)
      [] e.kind = "&E" -> arguments_of_ref(arguments(e.inner))
      [] e.kind = "own" -> e.arguments
      [] OTHER -> None

\* a mutant: a command with arguments is taken for a cached one
persistent_when_prepared(e) == e.kind \in PairKinds

\* the default body of Execute::persistent, which the adapters inherit
persistent_default(e) == FALSE

\* a mutant: the reference falls back to the trait's default
persistent_of_ref_default(inner_result) == FALSE

\* (*self).persistent() of the implementation for &E
persistent_of_ref(inner_result) == inner_result

\* Execute::persistent: false by default and forwarded by &E
RECURSIVE persistent(_)
persistent(e) ==
    CASE e.kind = "&E" -> persistent_of_ref(persistent(e.inner))
      [] e.kind = "own" -> e.persistent
      [] OTHER -> persistent_default(e)

RECURSIVE RefDepth(_)
RefDepth(e) == IF e.kind = "&E" THEN 1 + RefDepth(e.inner) ELSE 0

NoObs == [called |-> FALSE, sql |-> "", arguments |-> None, persistent |-> FALSE]

Observed(e) ==
    [called |-> TRUE, sql |-> sql(e), arguments |-> arguments(e),
     persistent |-> persistent(e)]

CmdStart ==
    /\ args = DefaultArguments
    /\ args_log = NoLog
    /\ cmd = NoCommand
    /\ obs = NoObs
    /\ prev_obs = NoObs

\* a text is used as a command
MakeText(kind, text) ==
    /\ cmd.kind = "none"
    /\ cmd' = TextCommand(kind, text)
    /\ UNCHANGED <<args, args_log, obs, prev_obs>>
    /\ UNCHANGED notCmd

\* a text and the Arguments built so far are used as a command
MakePair(kind, text) ==
    /\ cmd.kind = "none"
    /\ args_log.ctor # "none"
    /\ cmd' = PairCommand(kind, text, args)
    /\ UNCHANGED <<args, args_log, obs, prev_obs>>
    /\ UNCHANGED notCmd

\* a command of the caller's own type, with or without the Arguments built
MakeOwn(text, with_args, p) ==
    /\ cmd.kind = "none"
    /\ with_args => args_log.ctor # "none"
    /\ cmd' = OwnCommand(text, IF with_args THEN Some(args) ELSE None, p)
    /\ UNCHANGED <<args, args_log, obs, prev_obs>>
    /\ UNCHANGED notCmd

\* sql(), arguments() and persistent() are called on the command
CallMethods ==
    /\ cmd.kind # "none"
    /\ ~obs.called
    /\ obs' = Observed(cmd)
    /\ UNCHANGED <<args, args_log, cmd, prev_obs>>
    /\ UNCHANGED notCmd

\* a reference to the command is used as the command
Borrow ==
    /\ cmd.kind # "none"
    /\ obs.called
    /\ RefDepth(cmd) < MaxRefDepth
    /\ cmd' = Ref(cmd)
    /\ prev_obs' = obs
    /\ obs' = NoObs
    /\ UNCHANGED <<args, args_log>>
    /\ UNCHANGED notCmd

CmdStep ==
    \/ New
    \/ \E k \in 0..MaxCapacity : WithCapacity(k)
    \/ PushPositional
    \/ \E name \in Names : InsertNamed(name)
    \/ \E kind \in TextKinds, text \in Texts : MakeText(kind, text)
    \/ \E kind \in PairKinds, text \in Texts : MakePair(kind, text)
    \/ \E text \in Texts, with_args \in BOOLEAN, p \in BOOLEAN :
          MakeOwn(text, with_args, p)
    \/ CallMethods
    \/ Borrow

(***************************************************************************)
(* type.rs, to_value.rs, database.rs                                       *)
(*                                                                         *)
(* A value type is an implementation of Type<DB, R>: its type_id() under   *)
(* each Database and either the default compatible() or one of its own,    *)
(* given by the identifiers it takes.  The type system gives compatible()  *)
(* and accepts() a TypeInfo of the same Database only.                     *)
(***************************************************************************)
Databases == {"Postgres", "MySql"}

\* HasTypeId::TypeId: Eq + Debug + Hash + Copy
TypeIds == 1..NumTypeIds

\* Database::TypeInfo, read through id() and is_unknown()
TypeInfos == [id : TypeIds, unknown : BOOLEAN]

DefaultCompatible == [default |-> TRUE, takes |-> {}]

OwnCompatible(ids) == [default |-> FALSE, takes |-> ids]

NoType == [kind |-> "none"]

\* impl Type<DB, R> for T
BaseType(ids, compat) == [kind |-> "T", ids |-> ids, compat |-> compat]

\* &'_ T and Option<T>
Wrapped(kind, inner) == [kind |-> kind, inner |-> inner]

\* a mutant: the wrapper names no SQL type of its own and reports the first
type_id_of_wrapper_first(inner_id) == 1

\* <T as Type<DB, R>>::type_id() of the implementations for &T and Option<T>
type_id_of_wrapper(inner_id) == inner_id

\* Type::type_id
RECURSIVE type_id(_, _)
type_id(t, d) ==
    IF t.kind = "T" THEN t.ids[d] ELSE type_id_of_wrapper(type_id(t.inner, d))

\* a mutant: the identifier is compared with the type's under any database
compatible_any_database(t, d, info) ==
    \E other \in Databases : info.id = type_id(t, other)

\* the default body of Type::compatible: ty.id() == Self::type_id()
compatible_default(t, d, info) == info.id = type_id(t, d)

\* a mutant: the wrapper falls back to the trait's default
compatible_of_wrapper_default(t, d, info, inner_result) ==
    compatible_default(t, d, info)

\* <T as Type<DB, R>>::compatible(ty) of the implementations for &T and
\* Option<T>
compatible_of_wrapper(t, d, info, inner_result) == inner_result

\* Type::compatible
RECURSIVE compatible(_, _, _)
compatible(t, d, info) ==
    IF t.kind = "T"
    THEN IF t.compat.default THEN compatible_default(t, d, info)
         ELSE info.id \in t.compat.takes
    ELSE compatible_of_wrapper(t, d, info, compatible(t.inner, d, info))

\* a mutant: a TypeInfo that is unknown is checked like any other
accepts_known_only(t, d, info) == compatible(t, d, info)

\* ToValue::accepts: ty.is_unknown() || Self::compatible(ty)
accepts(t, d, info) == info.unknown \/ compatible(t, d, info)

RECURSIVE WrapDepth(_)
WrapDepth(t) == IF t.kind = "T" THEN 0 ELSE 1 + WrapDepth(t.inner)

RECURSIVE Innermost(_)
Innermost(t) == IF t.kind = "T" THEN t ELSE Innermost(t.inner)

NoTypeObs ==
    [called |-> FALSE, type_id |-> 0, compatible |-> FALSE, accepts |-> FALSE]

TypeStart ==
    /\ db \in Databases
    /\ ty \in TypeInfos
    /\ vt = NoType
    /\ type_obs = NoTypeObs

\* a value type is given its Type implementation, with the default
\* compatible()
ImplementType(ids) ==
    /\ vt.kind = "none"
    /\ vt' = BaseType(ids, DefaultCompatible)
    /\ UNCHANGED <<db, ty, type_obs>>
    /\ UNCHANGED notType

\* a value type is given its Type implementation, with a compatible() of its
\* own
ImplementTypeCoercing(ids, takes) ==
    /\ vt.kind = "none"
    /\ vt' = BaseType(ids, OwnCompatible(takes))
    /\ UNCHANGED <<db, ty, type_obs>>
    /\ UNCHANGED notType

\* the value type is used behind a reference or in an Option
Wrap(kind) ==
    /\ vt.kind # "none"
    /\ ~type_obs.called
    /\ WrapDepth(vt) < MaxWrapDepth
    /\ vt' = Wrapped(kind, vt)
    /\ UNCHANGED <<db, ty, type_obs>>
    /\ UNCHANGED notType

\* type_id(), compatible(ty) and accepts(ty) are called on the value type
CheckType ==
    /\ vt.kind # "none"
    /\ ~type_obs.called
    /\ type_obs' = [called |-> TRUE, type_id |-> type_id(vt, db),
                    compatible |-> compatible(vt, db, ty),
                    accepts |-> accepts(vt, db, ty)]
    /\ UNCHANGED <<db, ty, vt>>
    /\ UNCHANGED notType

TypeStep ==
    \/ \E ids \in [Databases -> TypeIds] : ImplementType(ids)
    \/ \E ids \in [Databases -> TypeIds], takes \in SUBSET TypeIds :
          ImplementTypeCoercing(ids, takes)
    \/ \E kind \in {"&T", "Option<T>"} : Wrap(kind)
    \/ CheckType

(***************************************************************************)
(* Specifications: one per part of the crate; the other parts stay as      *)
(* they start.                                                             *)
(***************************************************************************)
SslIdle == s = <<>> /\ changes = 0 /\ ssl_result = NoResult

ConnIdle ==
    /\ grammar = [u \in Uris |-> TRUE]
    /\ call = IdleCall
    /\ connections = <<>>
    /\ owned = {}
    /\ last_op = NoOp
    /\ outcomes = NoOutcomes

TypeIdle ==
    /\ db = "Postgres"
    /\ ty = [id |-> 1, unknown |-> TRUE]
    /\ vt = NoType
    /\ type_obs = NoTypeObs

SslInit == SslStart /\ ConnIdle /\ CmdStart /\ TypeIdle

SpecSsl == SslInit /\ [][SslStep]_vars

ConnInit == ConnStart /\ SslIdle /\ CmdStart /\ TypeIdle

SpecConn == ConnInit /\ [][ConnStep]_vars

CmdInit == CmdStart /\ SslIdle /\ ConnIdle /\ TypeIdle

SpecCmd == CmdInit /\ [][CmdStep]_vars

TypeInit == TypeStart /\ SslIdle /\ ConnIdle /\ CmdStart

SpecType == TypeInit /\ [][TypeStep]_vars

(***************************************************************************)
(* Claims about SslMode parsing.                                           *)
(***************************************************************************)
\* the alias table as the documentation gives it
DocumentedAliases ==
    {<<A_disable, "Disable">>, <<A_allow, "Disable">>,
     <<A_prefer, "Prefer">>, <<A_require, "Require">>,
     <<A_verify_ca_dash, "VerifyCa">>, <<A_verify_ca_under, "VerifyCa">>,
     <<A_verify_full_dash, "VerifyIdentity">>,
     <<A_verify_identity_dash, "VerifyIdentity">>,
     <<A_verify_full_under, "VerifyIdentity">>,
     <<A_verify_identity_under, "VerifyIdentity">>}

\* two characters that are equal or the two cases of one ASCII letter
SameLetter(x, y) ==
    \/ x = y
    \/ \E i \in 1..26 : {x, y} = {UpperLetters[i], LowerLetters[i]}

EqIgnoreCase(a, b) ==
    /\ Len(a) = Len(b)
    /\ \A i \in 1..Len(a) : SameLetter(a[i], b[i])

IsAlias(str) == \E p \in DocumentedAliases : EqIgnoreCase(str, p[1])

HasUpper(str) == \E i \in 1..Len(str) : CharToAsciiLowercase(str[i]) # str[i]

\* C1: an input that equals an alias up to the case of its letters parses to
\* the mode the alias table documents for that alias
C1_AliasYieldsDocumentedMode ==
    ssl_result # NoResult =>
        \A p \in DocumentedAliases :
            EqIgnoreCase(s, p[1]) => ssl_result = Ok(p[2])

\* a mixed-case spelling of verify_identity was parsed to VerifyIdentity
C1_Witness ==
    /\ ssl_result = Ok("VerifyIdentity")
    /\ HasUpper(s)
    /\ EqIgnoreCase(s, A_verify_identity_under)

\* str occurs in msg as a run of consecutive characters
Contains(msg, str) ==
    \E k \in 0..(Len(msg) - Len(str)) : SubSeq(msg, k + 1, k + Len(str)) = str

\* what stands between the quotes of an "unknown value" message
Quoted(msg) == SubSeq(msg, Len(MsgPrefix) + 2, Len(msg) - Len(MsgSuffix) - 1)

\* the character a backslash escape stands for
Unescaped(c) == IF c = "n" THEN "\n" ELSE IF c = "t" THEN "\t" ELSE c

RECURSIVE Unescape(_)
Unescape(str) ==
    IF str = <<>> THEN <<>>
    ELSE IF Head(str) = "\\" /\ Len(str) >= 2
         THEN <<Unescaped(str[2])>> \o Unescape(Tail(Tail(str)))
         ELSE <<Head(str)>> \o Unescape(Tail(str))

NeedsEscape(str) == \E i \in 1..Len(str) : str[i] \in {"\"", "\\", "\n", "\t"}

C12_ParseThenConnectOnce ==
    /\ call.stage = "future" =>
          /\ call.invoked = 0
          /\ call.opt.tag = IF grammar[call.uri] THEN "Ok" ELSE "Err"
    /\ call.stage = "awaiting" => (grammar[call.uri] /\ call.invoked = 1)
    /\ call.stage = "returned" =>
          IF grammar[call.uri]
          THEN /\ call.invoked = 1
               /\ \/ /\ call.created = {}
                     /\ call.result = ConnErr("Connect")
                  \/ \E c \in call.created :
                        /\ call.created = {c}
                        /\ call.result = ConnOk(c)
                        /\ connections[c].options = call.uri
          ELSE /\ call.invoked = 0
               /\ call.created = {}
               /\ call.result = ConnErr("Configuration")
    /\ \A uri \in Uris, reach \in BOOLEAN :
          LET a == outcomes[<<"connect", uri, reach>>]
              b == outcomes[<<"connect_sync", uri, reach>>]
          IN  (a # "none" /\ b # "none") => a = b

\* connect_sync has returned the parse error for a URI for which connect
\* returned it too, after both returned a connection for the other URI
C12_Witness ==
    /\ call.stage = "returned"
    /\ call.entry = "connect_sync"
    /\ call.result = ConnErr("Configuration")
    /\ call.invoked = 0
    /\ \E uri \in Uris : outcomes[<<"connect", uri, TRUE>>] = "Configuration"
    /\ \E uri \in Uris :
          /\ outcomes[<<"connect", uri, TRUE>>] = "Ok"
          /\ outcomes[<<"connect_sync", uri, TRUE>>] = "Ok"

(***************************************************************************)
(* Claims about Execute and Arguments.                                     *)
(***************************************************************************)
\* C5: arguments() on a (text, Arguments) pair returns the pair's Arguments,
\* present also when nothing was appended to it; arguments() on a bare text
\* returns nothing
C5_ArgumentsPresentOrAbsent ==
    obs.called =>
        /\ cmd.kind \in PairKinds => obs.arguments = {args} /\ obs.arguments # {}
        /\ cmd.kind \in TextKinds => obs.arguments = {}

\* arguments() was called on a pair whose Arguments has no entry
C5_Witness ==
    /\ obs.called
    /\ cmd.kind = "(String, Arguments)"
    /\ args_log.pushed = 0 /\ args_log.inserted = 0
    /\ obs.arguments = {args}

\* C6: persistent() returns false on the four built-in adapters, whatever
\* their text and arguments
C6_PersistentFalse ==
    (obs.called /\ cmd.kind \in TextKinds \cup PairKinds) => obs.persistent = FALSE

\* persistent() was called on a pair with arguments and on a non-empty text
C6_Witness ==
    /\ obs.called
    /\ cmd.kind = "(&str, Arguments)"
    /\ cmd.text = "SELECT 1"
    /\ args_log.pushed > 0 /\ args_log.inserted > 0

\* C7: the three methods return on a reference what they returned on the
\* value the reference is to
C7_ReferenceForwards ==
    (cmd.kind = "&E" /\ obs.called) => (prev_obs.called /\ obs = prev_obs)

\* the methods were called on a reference to a reference to a command of the
\* caller's own that overrides persistent() to true and has arguments
C7_Witness ==
    /\ cmd.kind = "&E"
    /\ obs.called
    /\ obs.persistent = TRUE
    /\ obs.arguments # {}
    /\ RefDepth(cmd) = 2

\* C8 as stated: len() is the number of positional entries appended plus the
\* number of named entries appended
C8_LenCountsAppends ==
    args_log.ctor # "none" =>
        /\ (args_log.pushed = 0 /\ args_log.inserted = 0) =>
              (args_log.len = 0 /\ args_log.is_empty)
        /\ args_log.len = args_log.pushed + args_log.inserted
        /\ args_log.is_empty <=> (args.positional = <<>> /\ DOMAIN args.named = {})

\* C8 as amended: after new() or with_capacity(k) len() is 0 and is_empty()
\* is true; len() is the number of positional entries appended plus the
\* number of distinct names the named entries were appended under;
\* is_empty() is true exactly when nothing was appended, that is when the
\* positional sequence and the named mapping are both empty
C8_LenCountsEntries ==
    args_log.ctor # "none" =>
        /\ (args_log.pushed = 0 /\ args_log.inserted = 0) =>
              (args_log.len = 0 /\ args_log.is_empty)
        /\ args_log.len = args_log.pushed + Cardinality(args_log.names)
        /\ args_log.is_empty <=> (args_log.pushed = 0 /\ args_log.inserted = 0)
        /\ args_log.is_empty <=> (args.positional = <<>> /\ DOMAIN args.named = {})

\* an Arguments built with a capacity got one positional entry and two named
\* entries under the same name
C8_Witness ==
    /\ args_log.ctor = "with_capacity"
    /\ args.capacity > 0
    /\ args_log.pushed = 1
    /\ args_log.inserted = 2
    /\ Cardinality(args_log.names) = 1
    /\ args_log.len = 2

(***************************************************************************)
(* Claims about Type and ToValue.                                          *)
(***************************************************************************)
\* C9: accepts(ty) is true when ty is unknown, whatever compatible(ty)
\* returns, and is what compatible(ty) returns when ty is not unknown
C9_AcceptsUnknownOrCompatible ==
    type_obs.called =>
        /\ ty.unknown => type_obs.accepts
        /\ ~ty.unknown => (type_obs.accepts <=> type_obs.compatible)

\* accepts(ty) returned true on an unknown ty that compatible(ty) refuses
C9_Witness ==
    /\ type_obs.called
    /\ ty.unknown
    /\ ~type_obs.compatible
    /\ type_obs.accepts

\* C10: the default compatible(ty) of a value type returns true exactly when
\* the identifier ty reports is the value type's type_id() under the
\* database ty belongs to
C10_DefaultCompatibleIsIdentity ==
    (type_obs.called /\ vt.kind = "T" /\ vt.compat.default) =>
        (type_obs.compatible <=> ty.id = vt.ids[db])

\* the default compatible(ty) refused an identifier that is the value type's
\* under the other database
C10_Witness ==
    /\ type_obs.called
    /\ vt.kind = "T"
    /\ vt.compat.default
    /\ ~type_obs.compatible
    /\ \E other \in Databases \ {db} : vt.ids[other] = ty.id

\* C11: type_id() and compatible(ty) of a value type behind references and
\* Options, nested in any order, return what the wrapped value type returns,
\* also when the wrapped type has a compatible() of its own
C11_WrappersForward ==
    (type_obs.called /\ vt.kind \in {"&T", "Option<T>"}) =>
        LET base == Innermost(vt)
        IN  /\ type_obs.type_id = base.ids[db]
            /\ type_obs.compatible <=>
                  IF base.compat.default THEN ty.id = base.ids[db]
                  ELSE ty.id \in base.compat.takes

\* the methods were called on an Option of a reference to a value type whose
\* own compatible() takes an identifier that is not its type_id()
C11_Witness ==
    /\ type_obs.called
    /\ vt.kind = "Option<T>"
    /\ vt.inner.kind = "&T"
    /\ ~vt.inner.inner.compat.default
    /\ type_obs.compatible
    /\ ty.id # type_obs.type_id

====
